---- MODULE Spec2Model ----
(***************************************************************************)
(* A model of MikrotikMonitor.go: the Device records of a fleet, the       *)
(* process-wide gosnmp.Default session handle that SNMPConfigure rewrites  *)
(* for every device, and GetDevice as the steps of its body (configure,    *)
(* connect, batch request and value mapping, deferred close and return).   *)
(* Text values are sequences of one-character strings, so that the         *)
(* substring search of strings.Replace is computed and not assumed.        *)
(***************************************************************************)
EXTENDS Integers, Sequences, FiniteSets, TLC

VARIABLES
  devices,     \* the Devices slice: one Device record per loaded descriptor
  Default,     \* gosnmp.Default, the session handle shared by all polls
  pc,          \* per caller: position inside GetDevice
  cur,         \* per caller: index of the device its current or last GetDevice call is for
  pending,     \* per caller: what the call will return once the deferred close ran
  ret,         \* per caller: the error value its GetDevice call returned (nil until then)
  used,        \* per caller: the session parameters its last library call read
  answer,      \* per caller: the variables of the response its batch request got
  crashed,     \* TRUE once a panic has left GetDevice and ended the process
  output,      \* the string ResultJson returned last
  polls,       \* number of GetDevice calls started so far
  gotOk,       \* history: per device, a batch request for it returned without error
  cleanSlate,  \* history: every poll started so far ended in a connect failure
  open,        \* the connections that are open, each named by the number of its dial
  dials,       \* number of connections dialled so far
  trace,       \* history: per caller, what its current or last GetDevice call went through
  before,      \* history: per caller, the record as it was when that call began
  loaded       \* history: the fleet as GetConfig loaded it

vars == <<devices, Default, pc, cur, pending, ret, used, answer, crashed, output,
          polls, gotOk, cleanSlate, open, dials, trace, before, loaded>>

----------------------------------------------------------------------------
(* Bounds of the model. *)

MaxDevices == 2     \* longest fleet that is loaded
MaxPolls == 2       \* GetDevice calls per behaviour

----------------------------------------------------------------------------
(* Text: a Go string is a sequence of one-character strings. *)

EmptyText == <<>>
RouterOSLiteral == <<"R", "o", "u", "t", "e", "r", "O", "S">>
TextRB == <<"R", "B", "1", "1", "0", "0">>
Space == <<" ">>

\* strings.Index: position of the first occurrence of sub in s, 0 when absent
\* (Go's -1; positions are 1-based here).
Index(s, sub) ==
  LET hits == {i \in 1..(Len(s) - Len(sub) + 1) : SubSeq(s, i, i + Len(sub) - 1) = sub}
  IN IF hits = {} THEN 0 ELSE CHOOSE i \in hits : \A j \in hits : i <= j

\* A variant of strings.Replace that also drops the blanks around the cut.
RECURSIVE TrimLeft(_)
TrimLeft(s) == IF Len(s) > 0 /\ Head(s) = " " THEN TrimLeft(Tail(s)) ELSE s

RECURSIVE ReplaceAndTrim(_, _, _, _)
ReplaceAndTrim(s, old, new, n) ==
  LET i == Index(s, old)
  IN IF n = 0 \/ i = 0 THEN s
     ELSE SubSeq(s, 1, i - 1) \o new
          \o TrimLeft(ReplaceAndTrim(SubSeq(s, i + Len(old), Len(s)), old, new, n - 1))

\* strings.Replace(s, old, new, n) for a non-empty old and n >= 0: the first n
\* non-overlapping occurrences of old, left to right, become new.
RECURSIVE Replace(_, _, _, _)
Replace(s, old, new, n) ==
  LET i == Index(s, old)
  IN IF n = 0 \/ i = 0 THEN s
     ELSE SubSeq(s, 1, i - 1) \o new
          \o Replace(SubSeq(s, i + Len(old), Len(s)), old, new, n - 1)

----------------------------------------------------------------------------
(* The loaded descriptors. *)

Callers == {"main", "worker"}
MainCaller == "main"

HostNames == <<"r1.lan", "r2.lan", "r3.lan", "r4.lan">>
CommunityNames == <<"public1", "public2", "public3", "public4">>
AuthPassphrases == <<"authpw1", "authpw2", "authpw3", "authpw4">>
PrivPassphrases == <<"privpw1", "privpw2", "privpw3", "privpw4">>

VersionStrings == {"2c", "3", "2"}
AuthProtocolNames == {"SHA1", "MD5", "SHA256", ""}
PrivProtocolNames == {"DES", "AES", "AES256", ""}

\* The authentication and privacy blocks that are loaded together:
\* <<authentication active, its protocol name, privacy active, its protocol name>>.
SecurityBlocks ==
  { <<FALSE, "", FALSE, "">>,
    <<TRUE, "MD5", FALSE, "">>,
    <<TRUE, "SHA1", TRUE, "AES">>,
    <<TRUE, "SHA256", TRUE, "DES">>,
    <<FALSE, "", TRUE, "AES256">> }

\* The descriptors of a fleet: every security block under version "3", the
\* blocks without privacy under "2c", and the bare version "2" of the README.
Descriptors ==
  { d \in VersionStrings \X SecurityBlocks :
      \/ d[1] = "3"
      \/ d[1] = "2c" /\ ~d[2][3]
      \/ d[1] = "2" /\ ~d[2][1] /\ ~d[2][3] }

\* The Device that GetConfig loads for descriptor d at index i: only host and
\* snmp are given in the file, the other fields hold Go's zero values.
LoadedDevice(i, d) ==
  [ Reached |-> FALSE,
    Host    |-> HostNames[i],
    Model   |-> EmptyText,
    Name    |-> EmptyText,
    SNMP    |-> [ Version        |-> d[1],
                  Community      |-> CommunityNames[i],
                  Authentication |-> [ Active     |-> d[2][1],
                                       Protocol   |-> d[2][2],
                                       Passphrase |-> IF d[2][1] THEN AuthPassphrases[i] ELSE "" ],
                  Privacy        |-> [ Active     |-> d[2][3],
                                       Protocol   |-> d[2][4],
                                       Passphrase |-> IF d[2][3] THEN PrivPassphrases[i] ELSE "" ] ],
    Version |-> [ RouterOS |-> EmptyText, Bootloader |-> EmptyText, Latest |-> EmptyText ] ]

----------------------------------------------------------------------------
(* Algorithm-name resolution. *)

\* Authentication.GetProtocol with a default case that resolves nothing.
AuthGetProtocolNoDefault(auth) ==
  CASE auth.Protocol = "SHA1" -> "SHA"
    [] auth.Protocol = "MD5"  -> "MD5"
    [] OTHER                  -> "unset"

\* Authentication.GetProtocol
AuthGetProtocol(auth) ==
  CASE auth.Protocol = "SHA1" -> "SHA"
    [] auth.Protocol = "MD5"  -> "MD5"
    [] OTHER                  -> "SHA"

\* Privacy.GetProtocol
PrivGetProtocol(priv) ==
  CASE priv.Protocol = "DES" -> "DES"
    [] priv.Protocol = "AES" -> "AES"
    [] OTHER                 -> "DES"

----------------------------------------------------------------------------
(* The session handle gosnmp.Default and SNMPConfigure. *)

TimeoutSeconds == 3

\* A nil *UsmSecurityParameters.
NilSecurityParameters ==
  [ attached                 |-> FALSE,
    UserName                 |-> "",
    AuthenticationProtocol   |-> "unset",
    AuthenticationPassphrase |-> "",
    PrivacyProtocol          |-> "unset",
    PrivacyPassphrase        |-> "" ]

\* The value of gosnmp.Default before the first SNMPConfigure. Conn is the
\* number of the dial that made the connection it points to, 0 for nil.
FreshDefault ==
  [ Target             |-> "",
    Community          |-> "public",
    Version            |-> "Version2c",
    SecurityModel      |-> "unset",
    MsgFlags           |-> "NoAuthNoPriv",
    SecurityParameters |-> NilSecurityParameters,
    Timeout            |-> 2,
    Conn               |-> 0 ]

\* The usmSecurityParameters literal that SNMPConfigure builds for a device.
UsmSecurityParameters(device) ==
  [ attached                 |-> TRUE,
    UserName                 |-> device.SNMP.Community,
    AuthenticationProtocol   |-> IF device.SNMP.Authentication.Active
                                 THEN AuthGetProtocol(device.SNMP.Authentication)
                                 ELSE "unset",
    AuthenticationPassphrase |-> IF device.SNMP.Authentication.Active
                                 THEN device.SNMP.Authentication.Passphrase
                                 ELSE "",
    PrivacyProtocol          |-> IF device.SNMP.Privacy.Active
                                 THEN PrivGetProtocol(device.SNMP.Privacy)
                                 ELSE "unset",
    PrivacyPassphrase        |-> IF device.SNMP.Privacy.Active
                                 THEN device.SNMP.Privacy.Passphrase
                                 ELSE "" ]

\* The handle after the version switch of SNMPConfigure.
ConfigureVersion(h, device) ==
  CASE device.SNMP.Version = "2c" -> [h EXCEPT !.Version = "Version2c"]
    [] device.SNMP.Version = "3"  -> [h EXCEPT !.Version = "Version3",
                                               !.SecurityModel = "UserSecurityModel",
                                               !.MsgFlags = "AuthPriv"]
    [] OTHER                      -> h

\* Device.SNMPConfigure with the community written in the "2c" case only.
SNMPConfigureCommunityFor2c(h, device) ==
  LET h1 == [h EXCEPT !.Timeout = TimeoutSeconds,
                      !.Target = device.Host,
                      !.Community = IF device.SNMP.Version = "2c"
                                    THEN device.SNMP.Community ELSE @]
      h2 == ConfigureVersion(h1, device)
  IN IF device.SNMP.Authentication.Active \/ device.SNMP.Privacy.Active
     THEN [h2 EXCEPT !.SecurityParameters = UsmSecurityParameters(device)]
     ELSE h2

\* Device.SNMPConfigure filling in the bundle the handle already has instead
\* of building a new one.
SNMPConfigureReusingBundle(h, device) ==
  LET h1 == [h EXCEPT !.Timeout = TimeoutSeconds,
                      !.Target = device.Host,
                      !.Community = device.SNMP.Community]
      h2 == ConfigureVersion(h1, device)
      new == UsmSecurityParameters(device)
      old == h.SecurityParameters
  IN IF device.SNMP.Authentication.Active \/ device.SNMP.Privacy.Active
     THEN [h2 EXCEPT !.SecurityParameters =
            [ attached                 |-> TRUE,
              UserName                 |-> new.UserName,
              AuthenticationProtocol   |-> IF device.SNMP.Authentication.Active
                                           THEN new.AuthenticationProtocol
                                           ELSE old.AuthenticationProtocol,
              AuthenticationPassphrase |-> IF device.SNMP.Authentication.Active
                                           THEN new.AuthenticationPassphrase
                                           ELSE old.AuthenticationPassphrase,
              PrivacyProtocol          |-> IF device.SNMP.Privacy.Active
                                           THEN new.PrivacyProtocol
                                           ELSE old.PrivacyProtocol,
              PrivacyPassphrase        |-> IF device.SNMP.Privacy.Active
                                           THEN new.PrivacyPassphrase
                                           ELSE old.PrivacyPassphrase ]]
     ELSE h2

\* Device.SNMPConfigure: the handle h after it ran for device.
SNMPConfigure(h, device) ==
  LET h1 == [h EXCEPT !.Timeout = TimeoutSeconds,
                      !.Target = device.Host,
                      !.Community = device.SNMP.Community]
      h2 == ConfigureVersion(h1, device)
  IN IF device.SNMP.Authentication.Active \/ device.SNMP.Privacy.Active
     THEN [h2 EXCEPT !.SecurityParameters = UsmSecurityParameters(device)]
     ELSE h2

\* What a connect or a request reads from the handle.
Session(h) ==
  [ Target             |-> h.Target,
    Community          |-> h.Community,
    Version            |-> h.Version,
    SecurityModel      |-> h.SecurityModel,
    MsgFlags           |-> h.MsgFlags,
    SecurityParameters |-> h.SecurityParameters ]

NoSession == Session(FreshDefault)

----------------------------------------------------------------------------
(* The batch request and the mapping of its variables. *)

OidRouterOS   == ".1.3.6.1.4.1.14988.1.1.4.4.0"
OidBootloader == ".1.3.6.1.4.1.14988.1.1.7.4.0"
OidLatest     == ".1.3.6.1.4.1.14988.1.1.7.7.0"
OidSysDescr   == ".1.3.6.1.2.1.1.1.0"
OidSysName    == ".1.3.6.1.2.1.1.5.0"
OidOther      == ".1.3.6.1.2.1.1.3.0"

\* oids, the list GetDevice requests.
oids == <<OidRouterOS, OidBootloader, OidLatest, OidSysDescr, OidSysName>>

\* A gosnmp.SnmpPDU: Type tells the dynamic type of Value ([]byte for an
\* OctetString, int for an Integer, nil for NoSuchObject).
Pdu(name, type, value) == [Name |-> name, Type |-> type, Value |-> value]
Octets(name, text) == Pdu(name, "OctetString", text)

\* variable.Value.([]byte) succeeds
IsBytes(variable) == variable.Type = "OctetString"

\* One case of the switch of GetDevice, for a variable whose value is a byte
\* buffer: the device with the value stored (default: printed, nothing stored).
MapField(device, variable) ==
  CASE variable.Name = OidRouterOS   -> [device EXCEPT !.Version.RouterOS = variable.Value]
    [] variable.Name = OidLatest     -> [device EXCEPT !.Version.Latest = variable.Value]
    [] variable.Name = OidBootloader -> [device EXCEPT !.Version.Bootloader = variable.Value]
    [] variable.Name = OidSysDescr   ->
         [device EXCEPT !.Model = Replace(variable.Value, RouterOSLiteral, EmptyText, 1)]
    [] variable.Name = OidSysName    -> [device EXCEPT !.Name = variable.Value]
    [] OTHER                         -> device

\* The loop over result.Variables: every case asserts the value to be a byte
\* buffer, and a failed assertion panics and leaves the loop.
RECURSIVE MapVariables(_, _)
MapVariables(device, variables) ==
  IF variables = <<>> THEN [device |-> device, panicked |-> FALSE]
  ELSE IF ~IsBytes(Head(variables)) THEN [device |-> device, panicked |-> TRUE]
  ELSE MapVariables(MapField(device, Head(variables)), Tail(variables))

\* Lines 122-143 starting from a new Device{Host: device.Host, Reached: true}.
AfterGetOnNewRecord(device, variables) ==
  MapVariables(
    [ Reached |-> TRUE,
      Host    |-> device.Host,
      Model   |-> EmptyText,
      Name    |-> EmptyText,
      SNMP    |-> [ Version        |-> "",
                    Community      |-> "",
                    Authentication |-> [Active |-> FALSE, Protocol |-> "", Passphrase |-> ""],
                    Privacy        |-> [Active |-> FALSE, Protocol |-> "", Passphrase |-> ""] ],
      Version |-> [RouterOS |-> EmptyText, Bootloader |-> EmptyText, Latest |-> EmptyText] ],
    variables)

\* Lines 122-143 with Reached set inside the test for a non-empty result.
AfterGetReachedIfAny(device, variables) ==
  IF Len(variables) > 0
  THEN MapVariables([device EXCEPT !.Reached = TRUE], variables)
  ELSE [device |-> device, panicked |-> FALSE]

\* Lines 122-143: Reached is set, then the variables are mapped.
AfterGet(device, variables) ==
  MapVariables([device EXCEPT !.Reached = TRUE], variables)

\* Texts the agents hold.
SysDescrTexts ==
  { RouterOSLiteral \o Space \o TextRB,
    TextRB,
    RouterOSLiteral,
    TextRB \o Space \o RouterOSLiteral \o Space \o RouterOSLiteral,
    <<"R", "o", "u", "t", "e", "r">> \o RouterOSLiteral \o <<"x">>,
    <<"r", "o", "u", "t", "e", "r", "O", "S">> \o Space \o RouterOSLiteral \o RouterOSLiteral,
    EmptyText }

FullResponse(descr) ==
  << Octets(OidRouterOS, <<"7">>), Octets(OidBootloader, <<"6">>),
     Octets(OidLatest, <<"8">>), Octets(OidSysDescr, descr),
     Octets(OidSysName, <<"g", "w">>) >>

Reverse(s) == [k \in 1..Len(s) |-> s[Len(s) + 1 - k]]
Rotate(s, n) == [k \in 1..Len(s) |-> s[((k + n - 1) % Len(s)) + 1]]

AnswerRB == FullResponse(RouterOSLiteral \o Space \o TextRB)
UnknownOctets == Octets(OidOther, <<"4", "2">>)
UnknownInteger == Pdu(OidOther, "Integer", EmptyText)

\* result.Variables of the batch responses of a fleet scan: all five values,
\* none, two of them after an address that was not asked for, and one value
\* missing on the device.
BasicResponses ==
  { AnswerRB,
    <<>>,
    << UnknownOctets, Octets(OidSysName, <<"a", "p">>), Octets(OidRouterOS, <<"9">>) >>,
    << Octets(OidRouterOS, <<"7">>), Pdu(OidBootloader, "NoSuchObject", EmptyText),
       Octets(OidLatest, <<"8">>), Octets(OidSysDescr, TextRB),
       Octets(OidSysName, <<"g", "w">>) >> }

\* result.Variables of the batch responses one device is probed with: also all
\* descriptions, other orders of the five values, and unknown addresses with a
\* text and with a number at either end.
Responses ==
  BasicResponses
  \cup { FullResponse(d) : d \in SysDescrTexts }
  \cup { Rotate(AnswerRB, n) : n \in 1..(Len(AnswerRB) - 1) }
  \cup { Reverse(AnswerRB),
         << UnknownOctets >> \o AnswerRB,
         AnswerRB \o << UnknownOctets >>,
         << UnknownInteger >> \o AnswerRB,
         AnswerRB \o << UnknownInteger >> }

----------------------------------------------------------------------------
(* Errors: the text of an error is the sequence of its parts. *)

NoError == <<>>

\* fmt.Errorf with the verbs replaced by their arguments
Errorf(parts) == parts

\* The errors gosnmp's Connect returns: a parameter validation error, or a
\* dial error that quotes the target of the handle.
ConnectErrors(h) ==
  { <<"SNMPV3 SecurityParameters must be set">>,
    <<"error establishing connection to host: dial udp: lookup ", h.Target,
      ": no such host">> }

\* The errors gosnmp's Get returns.
GetErrors == { <<"request timeout (after 3 retries)">> }

Names(err, host) == \E k \in 1..Len(err) : err[k] = host

----------------------------------------------------------------------------
(* ResultJson: encoding/json writes the exported fields without a "-" tag. *)

\* The JSON object of a Device with the community also written.
JsonDeviceWithCommunity(device) ==
  [ Reached |-> device.Reached,
    Host    |-> device.Host,
    Model   |-> device.Model,
    Name    |-> device.Name,
    SNMP    |-> [ Version        |-> device.SNMP.Version,
                  Community      |-> device.SNMP.Community,
                  Authentication |-> [Active |-> device.SNMP.Authentication.Active],
                  Privacy        |-> [Active |-> device.SNMP.Privacy.Active] ],
    Version |-> [ RouterOS   |-> device.Version.RouterOS,
                  Bootloader |-> device.Version.Bootloader,
                  Latest     |-> device.Version.Latest ] ]

\* The JSON object of a Device.
JsonDevice(device) ==
  [ Reached |-> device.Reached,
    Host    |-> device.Host,
    Model   |-> device.Model,
    Name    |-> device.Name,
    SNMP    |-> [ Version        |-> device.SNMP.Version,
                  Authentication |-> [Active |-> device.SNMP.Authentication.Active],
                  Privacy        |-> [Active |-> device.SNMP.Privacy.Active] ],
    Version |-> [ RouterOS   |-> device.Version.RouterOS,
                  Bootloader |-> device.Version.Bootloader,
                  Latest     |-> device.Version.Latest ] ]

\* Devices.ResultJson: the JSON array of the fleet.
ResultJson(ds) == [k \in 1..Len(ds) |-> JsonDevice(ds[k])]

NoOutput == [written |-> FALSE, json |-> <<>>]

----------------------------------------------------------------------------
(* The state machine. *)

NoPending == [kind |-> "none", err |-> NoError]

\* Lines 118-120 with the record marked unreached on a failed request.
AfterGetErrorResets(device) == [device EXCEPT !.Reached = FALSE]

\* Lines 117-122 with Reached set before the error is looked at.
AfterGetErrorMarksReached(device) == [device EXCEPT !.Reached = TRUE]

\* Lines 118-120: the record after a failed batch request.
AfterGetError(device) == device

\* A deferred function that only logs.
CloseConnForgotten(o, conn) == o

\* gosnmp.Default.Conn.Close() (line 112): the open connections after conn
\* was closed.
CloseConn(o, conn) == o \ {conn}

NoAnswer == [got |-> FALSE, variables |-> <<>>]

\* The rest of the state when the program starts.
InitRest ==
  /\ Default = FreshDefault
  /\ pc = [c \in Callers |-> "idle"]
  /\ cur = [c \in Callers |-> 0]
  /\ pending = [c \in Callers |-> NoPending]
  /\ ret = [c \in Callers |-> NoError]
  /\ used = [c \in Callers |-> NoSession]
  /\ answer = [c \in Callers |-> NoAnswer]
  /\ crashed = FALSE
  /\ output = NoOutput
  /\ polls = 0
  /\ gotOk = [i \in DOMAIN devices |-> FALSE]
  /\ cleanSlate = TRUE
  /\ open = {}
  /\ dials = 0
  /\ trace = [c \in Callers |-> <<>>]
  /\ before = [c \in Callers |-> <<>>]
  /\ loaded = devices

\* The place of descriptor d in the listing of the configuration files.
Rank(d) ==
  (CASE d[1] = "3" -> 0 [] d[1] = "2c" -> 16 [] OTHER -> 32)
  + (IF d[2][1] THEN 8 ELSE 0) + (IF d[2][3] THEN 4 ELSE 0)
  + (CASE d[2][2] = "MD5" -> 1 [] d[2][2] = "SHA1" -> 2 [] d[2][2] = "SHA256" -> 3
       [] OTHER -> 0)

\* After GetConfig: a fleet of loaded descriptors, nothing polled yet.  The
\* devices are polled in any order, so of the files that list the same
\* descriptors in different orders one is loaded: the others behave as it
\* does with the hosts renamed.
Init ==
  /\ \E n \in 1..MaxDevices :
       \E f \in [1..n -> Descriptors] :
         /\ \A i \in 1..(n - 1) : Rank(f[i]) <= Rank(f[i + 1])
         /\ devices = [i \in 1..n |-> LoadedDevice(i, f[i])]
  /\ InitRest

\* After GetConfig of a file with one device; the file may also give reached.
InitOne ==
  /\ \E d \in {<<"2c", <<FALSE, "", FALSE, "">> >>, <<"3", <<TRUE, "SHA1", TRUE, "AES">> >>} :
       \E reached \in BOOLEAN :
         devices = <<[LoadedDevice(1, d) EXCEPT !.Reached = reached]>>
  /\ InitRest

\* GetDevice is entered for devices[i] and runs SNMPConfigure (line 104); the
\* string an earlier ResultJson returned has been printed by then, and what
\* the caller's last call returned and read is gone.
GetDeviceConfigure(c, i) ==
  /\ ~crashed
  /\ pc[c] = "idle"
  /\ polls < MaxPolls
  /\ Default' = SNMPConfigure(Default, devices[i])
  /\ pc' = [pc EXCEPT ![c] = "connect"]
  /\ cur' = [cur EXCEPT ![c] = i]
  /\ polls' = polls + 1
  /\ output' = NoOutput
  /\ ret' = [ret EXCEPT ![c] = NoError]
  /\ used' = [used EXCEPT ![c] = NoSession]
  /\ trace' = [trace EXCEPT ![c] = <<"Configured">>]
  /\ before' = [before EXCEPT ![c] = <<devices[i]>>]
  /\ UNCHANGED <<devices, pending, answer, crashed, gotOk, cleanSlate,
                 open, dials, loaded>>

\* gosnmp.Default.Connect() returns nil (line 107): the handle points to a
\* new connection, whatever it pointed to; the close is deferred.
ConnectOk(c) ==
  /\ ~crashed
  /\ pc[c] = "connect"
  /\ dials' = dials + 1
  /\ open' = open \cup {dials + 1}
  /\ Default' = [Default EXCEPT !.Conn = dials + 1]
  /\ used' = [used EXCEPT ![c] = Session(Default)]
  /\ pc' = [pc EXCEPT ![c] = "query"]
  /\ cleanSlate' = FALSE
  /\ trace' = [trace EXCEPT ![c] = @ \o <<"Connecting", "Connected">>]
  /\ UNCHANGED <<devices, cur, pending, ret, answer, crashed, output, polls, gotOk,
                 before, loaded>>

\* gosnmp.Default.Connect() returns an error and GetDevice returns (lines 107-110).
ConnectFail(c) ==
  /\ ~crashed
  /\ pc[c] = "connect"
  /\ \E err \in ConnectErrors(Default) :
       ret' = [ret EXCEPT ![c] = Errorf(<<"fehler beim Verbinden: ">> \o err)]
  /\ used' = [used EXCEPT ![c] = Session(Default)]
  /\ pc' = [pc EXCEPT ![c] = "idle"]
  /\ trace' = [trace EXCEPT ![c] = @ \o <<"Connecting", "ConnectFailed">>]
  /\ UNCHANGED <<devices, Default, cur, pending, answer, crashed, output, polls, gotOk,
                 cleanSlate, open, dials, before, loaded>>

\* gosnmp.Default.Get(oids) returns an error (lines 117-120).
GetFail(c) ==
  /\ ~crashed
  /\ pc[c] = "query"
  /\ \E err \in GetErrors :
       pending' = [pending EXCEPT ![c] =
         [ kind |-> "return",
           err  |-> Errorf(<<devices[cur[c]].Host, " Fehler bei der SNMP-Anfrage: ">> \o err) ]]
  /\ devices' = [devices EXCEPT ![cur[c]] = AfterGetError(@)]
  /\ used' = [used EXCEPT ![c] = Session(Default)]
  /\ pc' = [pc EXCEPT ![c] = "close"]
  /\ trace' = [trace EXCEPT ![c] = @ \o <<"Querying", "QueryFailed">>]
  /\ UNCHANGED <<Default, cur, ret, answer, crashed, output, polls, gotOk,
                 cleanSlate, open, dials, before, loaded>>

\* gosnmp.Default.Get(oids) returns a result with the variables of one of the
\* responses in pool: Reached is set and the variables are mapped, up to a
\* panicking type assertion (lines 117-143).
GetOk(c, pool) ==
  /\ ~crashed
  /\ pc[c] = "query"
  /\ \E variables \in pool :
       LET m == AfterGet(devices[cur[c]], variables)
       IN /\ devices' = [devices EXCEPT ![cur[c]] = m.device]
          /\ answer' = [answer EXCEPT ![c] = [got |-> TRUE, variables |-> variables]]
          /\ pending' = [pending EXCEPT ![c] =
               [kind |-> IF m.panicked THEN "panic" ELSE "return", err |-> NoError]]
          /\ trace' = [trace EXCEPT ![c] =
               @ \o <<"Querying", IF m.panicked THEN "Panicked" ELSE "Mapped">>]
  /\ used' = [used EXCEPT ![c] = Session(Default)]
  /\ gotOk' = [gotOk EXCEPT ![cur[c]] = TRUE]
  /\ pc' = [pc EXCEPT ![c] = "close"]
  /\ UNCHANGED <<Default, cur, ret, crashed, output, polls, cleanSlate, open, dials,
                 before, loaded>>

\* The deferred gosnmp.Default.Conn.Close() runs on the connection the handle
\* points to and returns nil or an error, which is only logged; then GetDevice
\* returns, or the panic goes on and ends the process (lines 111-115).
CloseAndReturn(c) ==
  /\ ~crashed
  /\ pc[c] = "close"
  /\ open' = CloseConn(open, Default.Conn)
  /\ \E closeFails \in BOOLEAN :
       trace' = [trace EXCEPT ![c] =
         @ \o <<IF closeFails \/ Default.Conn \notin open THEN "CloseFailed" ELSE "Closed">>]
  /\ IF pending[c].kind = "panic"
     THEN /\ crashed' = TRUE
          /\ UNCHANGED ret
     ELSE /\ ret' = [ret EXCEPT ![c] = pending[c].err]
          /\ UNCHANGED crashed
  /\ pending' = [pending EXCEPT ![c] = NoPending]
  /\ answer' = [answer EXCEPT ![c] = NoAnswer]
  /\ pc' = [pc EXCEPT ![c] = "idle"]
  /\ UNCHANGED <<devices, Default, cur, used, output, polls, gotOk, cleanSlate, dials,
                 before, loaded>>

\* devices.ResultJson() is called between polls.
CallResultJson ==
  /\ ~crashed
  /\ \A c \in Callers : pc[c] = "idle"
  /\ output' = [written |-> TRUE, json |-> ResultJson(devices)]
  /\ UNCHANGED <<devices, Default, pc, cur, pending, ret, used, answer, crashed,
                 polls, gotOk, cleanSlate, open, dials, trace, before, loaded>>

\* main polls one device at a time, in any order (the loop of the README polls
\* them in the order of the file).
PollNext(pool) ==
  \/ \E i \in DOMAIN devices :
       /\ \A c \in Callers : pc[c] = "idle"
       /\ GetDeviceConfigure(MainCaller, i)
  \/ ConnectOk(MainCaller)
  \/ ConnectFail(MainCaller)
  \/ GetFail(MainCaller)
  \/ GetOk(MainCaller, pool)
  \/ CloseAndReturn(MainCaller)
  \/ CallResultJson

\* A fleet scan.
Next == PollNext(BasicResponses)

Spec == Init /\ [][Next]_vars

\* One device, probed with every response.
NextOne == PollNext(Responses)

SpecOne == InitOne /\ [][NextOne]_vars

\* Two goroutines call GetDevice for different devices and their steps
\* interleave.
NextConc ==
  \/ \E c \in Callers : \E i \in DOMAIN devices :
       /\ \A d \in Callers : pc[d] # "idle" => cur[d] # i
       /\ GetDeviceConfigure(c, i)
  \/ \E c \in Callers : ConnectOk(c)
  \/ \E c \in Callers : ConnectFail(c)
  \/ \E c \in Callers : GetFail(c)
  \/ \E c \in Callers : GetOk(c, BasicResponses)
  \/ \E c \in Callers : CloseAndReturn(c)
  \/ CallResultJson

SpecConc == Init /\ [][NextConc]_vars

----------------------------------------------------------------------------
(* Properties. *)

Active(c) == pc[c] \in {"connect", "query", "close"}
Polled(c) == devices[cur[c]]
Returned(c) == pc[c] = "idle" /\ cur[c] # 0
IsConnectError(err) == err # NoError /\ err[1] = "fehler beim Verbinden: "
FieldsEmpty(device) ==
  /\ device.Model = EmptyText
  /\ device.Name = EmptyText
  /\ device.Version.RouterOS = EmptyText
  /\ device.Version.Bootloader = EmptyText
  /\ device.Version.Latest = EmptyText

\* C1: a record's Reached flag is true if and only if a batch request issued
\* for that device returned without error, whatever variables the response held.
ReachedIffBatchSucceeded ==
  \A i \in DOMAIN devices : devices[i].Reached <=> gotOk[i]

\* C1 witness: one device answered with nothing that was stored and is reached,
\* and the poll of another device has just failed and left it unreached.
ReachedWithoutValues ==
  \E i, j \in DOMAIN devices :
    /\ i # j
    /\ gotOk[i] /\ devices[i].Reached /\ FieldsEmpty(devices[i])
    /\ Returned(MainCaller) /\ cur[MainCaller] = j
    /\ ret[MainCaller] # NoError /\ ~devices[j].Reached

\* C2: after a connect failure the device is still unreached and the returned
\* error names its host, and a device polled after nothing but connect failures
\* is polled with the session it would get on an untouched handle.
ConnectFailureIsContained ==
  /\ \A c \in Callers :
       (Returned(c) /\ IsConnectError(ret[c])) =>
         /\ Names(ret[c], Polled(c).Host)
         /\ (~gotOk[cur[c]] => ~Polled(c).Reached)
  /\ \A c \in Callers :
       (pc[c] = "connect" /\ cleanSlate) =>
         Session(Default) = Session(SNMPConfigure(FreshDefault, Polled(c)))

\* C3: the session of a version "2c" device has no security bundle attached.
NoBundleForVersion2c ==
  \A c \in Callers :
    (Active(c) /\ Polled(c).SNMP.Version = "2c") =>
      ~Default.SecurityParameters.attached

\* C4: the session of a version "3" device with authentication and privacy
\* both inactive has no security bundle attached.
NoBundleForVersion3Plain ==
  \A c \in Callers :
    ( /\ Active(c)
      /\ Polled(c).SNMP.Version = "3"
      /\ ~Polled(c).SNMP.Authentication.Active
      /\ ~Polled(c).SNMP.Privacy.Active ) =>
      ~Default.SecurityParameters.attached

\* The secrets of a fleet replaced by other ones.
AltSecrets ==
  { [Community |-> "x", Protocol |-> "", Passphrase |-> ""],
    [Community |-> "r1.lan", Protocol |-> "MD5", Passphrase |-> "hunter2"] }

WithSecrets(ds, alt) ==
  [k \in 1..Len(ds) |->
     [ds[k] EXCEPT !.SNMP.Community = alt.Community,
                   !.SNMP.Authentication.Protocol = alt.Protocol,
                   !.SNMP.Authentication.Passphrase = alt.Passphrase,
                   !.SNMP.Privacy.Protocol = alt.Protocol,
                   !.SNMP.Privacy.Passphrase = alt.Passphrase]]

\* C5: the output of ResultJson is the same for every fleet that differs from
\* this one only in its secrets, and its objects have the exported fields only.
OutputIndependentOfSecrets ==
  output.written =>
    /\ \A alt \in AltSecrets : output.json = ResultJson(WithSecrets(devices, alt))
    /\ \A k \in 1..Len(output.json) :
         /\ DOMAIN output.json[k] = {"Reached", "Host", "Model", "Name", "SNMP", "Version"}
         /\ DOMAIN output.json[k].SNMP = {"Version", "Authentication", "Privacy"}
         /\ DOMAIN output.json[k].SNMP.Authentication = {"Active"}
         /\ DOMAIN output.json[k].SNMP.Privacy = {"Active"}

\* C5 witness: a fleet with a reached device and a device that holds
\* passphrases has been serialized.
SerializedFleetWithSecrets ==
  /\ output.written
  /\ \E i \in DOMAIN devices : devices[i].Reached
  /\ \E i \in DOMAIN devices :
       /\ devices[i].SNMP.Authentication.Passphrase # ""
       /\ devices[i].SNMP.Privacy.Passphrase # ""

Has(variables, name) == \E k \in 1..Len(variables) : variables[k].Name = name
\* The value of the last variable with this address.
ValueOf(variables, name) ==
  LET ks == {k \in 1..Len(variables) : variables[k].Name = name}
  IN variables[CHOOSE k \in ks : \A l \in ks : l <= k].Value
HasAllFive(variables) ==
  \A k \in 1..Len(oids) :
    /\ Has(variables, oids[k])
    /\ \A l \in 1..Len(variables) : variables[l].Name = oids[k] => IsBytes(variables[l])

\* C6: after a response with all five known addresses the record is reached
\* and holds each value in its field, whatever else the response holds.
AllFiveAreStored ==
  \A c \in Callers :
    (pc[c] = "close" /\ answer[c].got /\ HasAllFive(answer[c].variables)) =>
      /\ Polled(c).Reached
      /\ Polled(c).Version.RouterOS = ValueOf(answer[c].variables, OidRouterOS)
      /\ Polled(c).Version.Bootloader = ValueOf(answer[c].variables, OidBootloader)
      /\ Polled(c).Version.Latest = ValueOf(answer[c].variables, OidLatest)
      /\ Polled(c).Name = ValueOf(answer[c].variables, OidSysName)
      /\ Polled(c).Model =
           Replace(ValueOf(answer[c].variables, OidSysDescr), RouterOSLiteral, EmptyText, 1)

\* C7: after every successful batch response GetDevice returns nil, and the
\* process goes on.
EveryResponseReturnsNil ==
  /\ ~crashed
  /\ \A c \in Callers :
       (pc[c] = "close" /\ answer[c].got) =>
         pending[c] = [kind |-> "return", err |-> NoError]

\* C8: the session of a device whose version is neither "2c" nor "3" is a
\* version 2c session without authentication or privacy flags.
UnknownVersionIsLowestSecurity ==
  \A c \in Callers :
    (Active(c) /\ Polled(c).SNMP.Version \notin {"2c", "3"}) =>
      /\ Default.Version = "Version2c"
      /\ Default.MsgFlags = "NoAuthNoPriv"

ExpectedAuth(name) == IF name = "MD5" THEN "MD5" ELSE "SHA"
ExpectedPriv(name) == IF name = "AES" THEN "AES" ELSE "DES"

\* C9: every authentication name of the fleet resolves to MD5 for "MD5" and to
\* SHA otherwise, every privacy name to AES for "AES" and to DES otherwise, and
\* the session of a device with authentication (privacy) active carries the
\* resolved algorithm.
ProtocolNamesResolve ==
  /\ \A i \in DOMAIN devices :
       /\ AuthGetProtocol(devices[i].SNMP.Authentication)
            = ExpectedAuth(devices[i].SNMP.Authentication.Protocol)
       /\ PrivGetProtocol(devices[i].SNMP.Privacy)
            = ExpectedPriv(devices[i].SNMP.Privacy.Protocol)
  /\ \A c \in Callers :
       Active(c) =>
         /\ Polled(c).SNMP.Authentication.Active =>
              /\ Default.SecurityParameters.attached
              /\ Default.SecurityParameters.AuthenticationProtocol
                   = ExpectedAuth(Polled(c).SNMP.Authentication.Protocol)
         /\ Polled(c).SNMP.Privacy.Active =>
              /\ Default.SecurityParameters.attached
              /\ Default.SecurityParameters.PrivacyProtocol
                   = ExpectedPriv(Polled(c).SNMP.Privacy.Protocol)

\* C9 witness: a version "3" device with an unrecognized authentication name is
\* being queried over a session that authenticates with SHA.
UnknownAuthNameInUse ==
  \E c \in Callers :
    /\ pc[c] = "query"
    /\ Polled(c).SNMP.Version = "3"
    /\ Polled(c).SNMP.Authentication.Active
    /\ Polled(c).SNMP.Authentication.Protocol \notin {"SHA1", "MD5"}
    /\ used[c].SecurityParameters.AuthenticationProtocol = "SHA"

Occurs(text, i) ==
  /\ i \in 1..(Len(text) - Len(RouterOSLiteral) + 1)
  /\ SubSeq(text, i, i + Len(RouterOSLiteral) - 1) = RouterOSLiteral
\* model is text with the occurrence of the literal at i cut out.
CutAt(text, i, model) ==
  /\ Len(model) = Len(text) - Len(RouterOSLiteral)
  /\ \A k \in 1..Len(model) :
       model[k] = IF k < i THEN text[k] ELSE text[k + Len(RouterOSLiteral)]

\* C10: the stored Model is the description with the first occurrence of
\* "RouterOS" cut out and nothing else changed, and the description itself
\* when it has no occurrence.
ModelIsDescriptionWithoutFirstLiteral ==
  \A c \in Callers :
    ( /\ pc[c] = "close" /\ answer[c].got /\ pending[c].kind = "return"
      /\ Has(answer[c].variables, OidSysDescr) ) =>
      LET text == ValueOf(answer[c].variables, OidSysDescr)
          model == Polled(c).Model
      IN /\ (\A i \in 1..Len(text) : ~Occurs(text, i)) => model = text
         /\ \A i \in 1..Len(text) :
              (Occurs(text, i) /\ \A j \in 1..(i - 1) : ~Occurs(text, j)) =>
                CutAt(text, i, model)
         /\ text = RouterOSLiteral \o Space \o TextRB => model = Space \o TextRB

\* C10 witness: a description with two occurrences of the literal and blanks
\* around them has been mapped.
ModelOfRepeatedLiteral ==
  \E c \in Callers :
    /\ pc[c] = "close" /\ answer[c].got /\ pending[c].kind = "return"
    /\ Has(answer[c].variables, OidSysDescr)
    /\ ValueOf(answer[c].variables, OidSysDescr)
         = TextRB \o Space \o RouterOSLiteral \o Space \o RouterOSLiteral
    /\ Polled(c).Model = TextRB \o Space \o Space \o RouterOSLiteral

Range(t) == {t[k] : k \in 1..Len(t)}
Count(t, events) == Cardinality({k \in 1..Len(t) : t[k] \in events})
IsQueryError(err, host) ==
  /\ Len(err) = 3
  /\ err[1] = host
  /\ err[2] = " Fehler bei der SNMP-Anfrage: "
  /\ <<err[3]>> \in GetErrors

\* C11: a call whose connect succeeded has closed its connection exactly once
\* when it is over and not before, no connection is open then, and it returns
\* nil after a mapped response and the query error after a failed request,
\* whether the close failed or not.
ClosedOnceOnEveryExit ==
  \A c \in Callers :
    /\ Active(c) => Count(trace[c], {"Closed", "CloseFailed"}) = 0
    /\ Returned(c) =>
         /\ Count(trace[c], {"Closed", "CloseFailed"})
              = IF "Connected" \in Range(trace[c]) THEN 1 ELSE 0
         /\ open = {}
         /\ "Mapped" \in Range(trace[c]) => ret[c] = NoError
         /\ "QueryFailed" \in Range(trace[c]) => IsQueryError(ret[c], Polled(c).Host)

\* C11 witness: a call whose batch request failed and whose close failed too
\* has returned the query error.
QueryErrorSurvivesCloseFailure ==
  \E c \in Callers :
    /\ Returned(c)
    /\ "QueryFailed" \in Range(trace[c])
    /\ trace[c][Len(trace[c])] = "CloseFailed"
    /\ IsQueryError(ret[c], Polled(c).Host)

\* The error of the call of c that has ended or is about to return.
ResultOf(c) == IF pc[c] = "close" THEN pending[c].err ELSE ret[c]
Began(c) == before[c][1]

\* C12: after a failed batch request the call's error is not nil and names the
\* device's host, Reached is as it was and no value was mapped.
QueryFailureIsTerminal ==
  \A c \in Callers :
    ((pc[c] = "close" \/ Returned(c)) /\ "QueryFailed" \in Range(trace[c])) =>
      /\ ResultOf(c) # NoError
      /\ Names(ResultOf(c), Polled(c).Host)
      /\ Polled(c).Reached = Began(c).Reached
      /\ Polled(c).Model = Began(c).Model
      /\ Polled(c).Name = Began(c).Name
      /\ Polled(c).Version = Began(c).Version
      /\ "Mapped" \notin Range(trace[c])

\* C12 witness: the batch request of an unreached device has failed after a
\* successful connect and the call has returned.
QueryFailedOnUnreachedDevice ==
  \E c \in Callers :
    /\ Returned(c) /\ ~crashed
    /\ trace[c][Len(trace[c]) - 1] = "QueryFailed"
    /\ "Connected" \in Range(trace[c])
    /\ ~Polled(c).Reached
    /\ Names(ret[c], Polled(c).Host)

\* The states a call went through, without its close.
Stages(t) ==
  LET IsStage(e) == e \notin {"Closed", "CloseFailed"}
  IN SelectSeq(t, IsStage)
PathConnectFailed == <<"Configured", "Connecting", "ConnectFailed">>
PathQueryFailed == <<"Configured", "Connecting", "Connected", "Querying", "QueryFailed">>
PathMapped == <<"Configured", "Connecting", "Connected", "Querying", "Mapped">>
IsPrefix(t, path) == Len(t) <= Len(path) /\ t = SubSeq(path, 1, Len(t))

\* C13: a call goes along one of the three paths of the state machine, with
\* one connect attempt and at most one batch request, after a successful
\* connect only; when it is over it is in a terminal state, and it has
\* returned nil exactly in Mapped.
CallFollowsLifecycle ==
  \A c \in Callers :
    (cur[c] # 0) =>
      /\ \E path \in {PathConnectFailed, PathQueryFailed, PathMapped} :
           IsPrefix(Stages(trace[c]), path)
      /\ Count(trace[c], {"Connecting"}) <= 1
      /\ Count(trace[c], {"Querying"}) <= 1
      /\ Returned(c) =>
           /\ Stages(trace[c]) \in {PathConnectFailed, PathQueryFailed, PathMapped}
           /\ (ret[c] = NoError) <=> (Stages(trace[c]) = PathMapped)

EndedWithError(c) ==
  /\ pc[c] = "close" \/ Returned(c)
  /\ Range(trace[c]) \cap {"ConnectFailed", "QueryFailed"} # {}

\* C14: a call that ends with an error leaves the record as it was when the
\* call began.
FailedCallLeavesRecord ==
  \A c \in Callers : EndedWithError(c) => Polled(c) = Began(c)

\* C14 witness: a device that had been reached and mapped was polled again,
\* the poll has returned an error, and the old values are still there.
StaleValuesAfterFailedPoll ==
  \E c \in Callers :
    /\ Returned(c) /\ EndedWithError(c)
    /\ ret[c] # NoError
    /\ Polled(c).Reached
    /\ Polled(c).Name # EmptyText
    /\ Polled(c).Version.RouterOS # EmptyText

\* The session a library call of c read has what SNMPConfigure wrote for the
\* device of c.
UsedOwnSession(c) ==
  /\ used[c].Target = Polled(c).Host
  /\ used[c].Community = Polled(c).SNMP.Community
  /\ Polled(c).SNMP.Version = "2c" => used[c].Version = "Version2c"
  /\ Polled(c).SNMP.Version = "3" => used[c].Version = "Version3"
  /\ (Polled(c).SNMP.Authentication.Active \/ Polled(c).SNMP.Privacy.Active) =>
       /\ used[c].SecurityParameters.attached
       /\ used[c].SecurityParameters.UserName = Polled(c).SNMP.Community
       /\ used[c].SecurityParameters.AuthenticationPassphrase
            = Polled(c).SNMP.Authentication.Passphrase
       /\ used[c].SecurityParameters.PrivacyPassphrase
            = Polled(c).SNMP.Privacy.Passphrase

\* C15: when calls for different devices interleave, the connect and the
\* batch request of each call use the target, community, version and security
\* parameters of its own device.
InterleavedCallsUseOwnSession ==
  \A c \in Callers : "Connecting" \in Range(trace[c]) => UsedOwnSession(c)

\* C16: the bundle SNMPConfigure attached for a device with authentication or
\* privacy active has the device's community as user name, the device's
\* authentication algorithm and passphrase if authentication is active and
\* none otherwise, and the same for privacy.
BundleIsBuiltFromCurrentDevice ==
  \A c \in Callers :
    LET snmp == Polled(c).SNMP
    IN (Active(c) /\ (snmp.Authentication.Active \/ snmp.Privacy.Active)) =>
         Default.SecurityParameters =
           [ attached                 |-> TRUE,
             UserName                 |-> snmp.Community,
             AuthenticationProtocol   |-> IF snmp.Authentication.Active
                                          THEN ExpectedAuth(snmp.Authentication.Protocol)
                                          ELSE "unset",
             AuthenticationPassphrase |-> IF snmp.Authentication.Active
                                          THEN snmp.Authentication.Passphrase
                                          ELSE "",
             PrivacyProtocol          |-> IF snmp.Privacy.Active
                                          THEN ExpectedPriv(snmp.Privacy.Protocol)
                                          ELSE "unset",
             PrivacyPassphrase        |-> IF snmp.Privacy.Active
                                          THEN snmp.Privacy.Passphrase
                                          ELSE "" ]

\* C16 witness: a device with authentication only is configured right after
\* the poll of a device with privacy active, and its bundle has no privacy
\* passphrase.
BundleAfterPrivacyDevice ==
  \E c \in Callers :
    /\ pc[c] = "connect" /\ polls = 2
    /\ Polled(c).SNMP.Authentication.Active /\ ~Polled(c).SNMP.Privacy.Active
    /\ \E j \in DOMAIN devices :
         j # cur[c] /\ gotOk[j] /\ devices[j].SNMP.Privacy.Active
    /\ Default.SecurityParameters.PrivacyPassphrase = ""
    /\ Default.SecurityParameters.AuthenticationPassphrase
         = Polled(c).SNMP.Authentication.Passphrase

\* C17: when the calls run one after the other, every connect and every batch
\* request reads the host and the community of the device being polled from
\* the handle, at most one connection is open, and none is open between calls.
SequentialScanUsesOwnTarget ==
  /\ \A c \in Callers :
       /\ Active(c) =>
            /\ Default.Target = Polled(c).Host
            /\ Default.Community = Polled(c).SNMP.Community
       /\ "Connecting" \in Range(trace[c]) =>
            /\ used[c].Target = Polled(c).Host
            /\ used[c].Community = Polled(c).SNMP.Community
  /\ Cardinality(open) <= 1
  /\ (\A c \in Callers : pc[c] = "idle") => open = {}

\* C17 witness: the second device of a scan is being queried over the second
\* connection, after the first device was connected to and queried.
SecondDeviceQueried ==
  \E c \in Callers :
    /\ pc[c] = "query"
    /\ cur[c] = 2 /\ polls = 2
    /\ dials = 2 /\ open = {2}
    /\ devices[1].Reached
    /\ used[c].Target = devices[2].Host

\* C18: the fleet has the length it was loaded with, and every record has
\* the Host and the SNMP block it was loaded with.
DescriptorsAreKept ==
  /\ Len(devices) = Len(loaded)
  /\ \A i \in DOMAIN devices :
       /\ devices[i].Host = loaded[i].Host
       /\ devices[i].SNMP = loaded[i].SNMP

\* C18 witness: both devices of a fleet with security settings have been
\* polled, one of them has been mapped, and the calls have returned.
FleetPolledAndMapped ==
  /\ Len(devices) = 2 /\ polls = 2
  /\ \A c \in Callers : pc[c] = "idle"
  /\ cur[MainCaller] = 1
  /\ \E i \in DOMAIN devices : devices[i].Reached /\ devices[i].Name # EmptyText
  /\ \E i \in DOMAIN devices : devices[i].SNMP.Authentication.Active
  /\ devices[2].Host = HostNames[2]

\* C19: no step changes the Reached flag of a record from true to false.
ReachedIsMonotonic ==
  [][\A i \in DOMAIN devices : devices[i].Reached => devices'[i].Reached]_vars

\* C19 witness: a device that an earlier poll had reached was polled again,
\* that poll has returned an error, and the device is still reached.
ReachedAfterLaterFailure ==
  \E c \in Callers :
    /\ Returned(c) /\ EndedWithError(c)
    /\ polls = 2
    /\ ~loaded[cur[c]].Reached
    /\ gotOk[cur[c]]
    /\ Polled(c).Reached

====
